---- MODULE Spec2Model ----
(***************************************************************************)
(* Model of the WebSocket RPC layer of hago (src/websocket.go).            *)
(*                                                                         *)
(* Threads: NCallers goroutines that invoke Client.wsCommand, one          *)
(* goroutine that invokes Client.CloseWebSocket, one reader goroutine per  *)
(* session (wsConn.reader).  The server and the network are the            *)
(* environment: every message a read returns is chosen by the              *)
(* environment, and the environment may drop a connection at any time.     *)
(*                                                                         *)
(* Errors are modelled as sequences of strings, the chain of messages that *)
(* fmt.Errorf("...: %w") builds; <<>> is the nil error.                    *)
(***************************************************************************)
EXTENDS Integers, Sequences, FiniteSets, TLC

\* ------------------------------------------------------------------ bounds
NCallers == 2
MaxCalls == 2
MaxCloses == 1
MaxPath == 3
MaxStates == 3

\* ------------------------------------------------------- program constants
RespChCap == 1

Callers == 1..NCallers
\* every wsCommand dials at most once
MaxSessions == MaxCalls
Sessions == 1..MaxSessions
Closer == NCallers + 1
Free == 0
NilWS == 0

\* Client.token
Token == "test-token"

\* A URL as url.Parse splits it and u.String() joins it: scheme, host with
\* port, path.  A path is the sequence of its pieces, each "/" or a name.
URL(sch, h, pa) == [scheme |-> sch, host |-> h, path |-> pa]
NoURL == URL("", "", <<>>)
Schemes == {"http", "https", "HTTP", "ftp", "ws"}
Hosts == {"localhost:8123", "ha.example.com"}
PathsOf(n) == [1..n -> {"/", "a"}]
Paths == UNION {PathsOf(n) : n \in 0..MaxPath}
URLs == {URL(sch, h, pa) : sch \in Schemes, h \in Hosts, pa \in Paths}

\* Client.baseURL in the specifications that are not about the URL.
BaseURLs == {URL("http", "localhost:8123", <<>>),
             URL("ftp", "localhost:8123", <<>>)}

\* ---------------------------------------------------------------- messages
\* wsResponse, as ReadJSON fills it.  error = <<>> is a nil *wsError,
\* otherwise <<code, message>>.  result = "" is an absent payload.
NoError == <<>>
MsgIDs == 0..MaxCalls
HsTypes == {"auth_required", "auth_ok", "auth_invalid"}
HsMsg(t, txt) == [type |-> t, message |-> txt]
HsMsgs == {HsMsg(t, "") : t \in HsTypes} \cup
          {HsMsg("auth_invalid", "Invalid access token")}
Shape(t, ok, e, r) == [type |-> t, success |-> ok, error |-> e, result |-> r]
Shapes == {Shape("result", TRUE, NoError, "{\"pong\":true}"),
           Shape("result", TRUE, NoError, ""),
           Shape("result", TRUE, NoError, "[1]"),
           Shape("result", FALSE, <<"not_found", "x">>, ""),
           Shape("result", TRUE, <<"unknown_error", "y">>, "{\"pong\":true}"),
           Shape("result", FALSE, NoError, ""),
           Shape("event", FALSE, NoError, "")}
Msgs == {[id |-> i, type |-> sh.type, success |-> sh.success,
          error |-> sh.error, result |-> sh.result] : i \in MsgIDs, sh \in Shapes}

\* wsAuthMessage
wsAuthMessage(token) == [type |-> "auth", access_token |-> token]
NoAuth == [type |-> "", access_token |-> ""]

\* ------------------------------------------------------------------ errors
ErrNil == <<>>
ErrClosed == <<"websocket connection closed">>
ErrCmdFailed == <<"command failed">>
ErrCtx == <<"context canceled">>
ErrIO == <<"i/o error">>
Wrap(prefix, err) == <<prefix>> \o err
WebSocketError(e) == <<"websocket error", e[1], e[2]>>

VARIABLES
  baseURL,    \* c.baseURL
  cws,        \* c.ws: NilWS or a session
  wsMu,       \* c.wsMu: Free or the thread holding it
  nSess,      \* number of connections dialed so far
  ws,         \* the wsConn objects (and their connections), by session
  pc,         \* position of each caller inside wsCommand
  cmd,        \* the command each caller passed
  target,     \* whether the caller passed a non-nil result target
  cancelled,  \* ctx.Done() of the caller's context is closed
  cur,        \* the *wsConn the caller works on (local variable ws)
  myid,       \* the local variable id of sendCommand
  respCh,     \* the buffer of the caller's respCh
  ret,        \* what the caller's last wsCommand returned
  sent,       \* ghost: the cmdMap the caller's sendCommand handed to WriteJSON
  rest,       \* the ScriptList call over the REST API
  calls,      \* number of wsCommand invocations so far
  orphan,     \* ghost: the call was pending when its reader's read failed
  kpc,        \* position of the CloseWebSocket goroutine
  ksess,      \* the session CloseWebSocket is closing
  closes      \* number of CloseWebSocket invocations so far

clientVars == <<baseURL, cws, wsMu, nSess>>
callerLocals == <<cmd, target, cur, myid, sent>>
closerVars == <<kpc, ksess, closes>>
vars == <<baseURL, cws, wsMu, nSess, ws, pc, cmd, target, cancelled, cur,
          myid, respCh, ret, sent, rest, calls, orphan, kpc, ksess, closes>>

\* A wsConn before it exists.  rpc is the position of its reader goroutine:
\* "none" (not started), "run", "blocked" (stuck in ch <- &resp holding
\* pendingMu), "closing2" (inside closeOnce.Do after close(ws.done)),
\* "exit".
\* url is the URL the connection was dialed with.
\* hs is the state of the handshake: "" (not dialed), "AwaitRequired",
\* "SendCredential", "AwaitOutcome", "ok", "failed"; sentAuth is the auth
\* message written on the connection.
\* Ghost fields: doneCloses
\* counts close(ws.done), readers counts `go ws.reader()`, rhist records
\* whether the reader has dropped a message and delivered one after that.
NewWS == [dialed |-> FALSE, remote |-> "up", connClosed |-> FALSE,
          done |-> FALSE, once |-> "new", msgID |-> 0,
          pending |-> {}, pendingMu |-> Free, mu |-> Free, rpc |-> "none",
          hs |-> "", sentAuth |-> NoAuth, url |-> NoURL,
          doneCloses |-> 0, readers |-> 0, rhist |-> "none"]

NoRet == [err |-> ErrNil, id |-> 0, result |-> "", val |-> ""]

\* ---------------------------------------------------------- ScriptList
\* An entity id and a friendly name are Go strings, kept as sequences of
\* characters so that HasPrefix and TrimPrefix work on them.
ScriptDot == <<"s", "c", "r", "i", "p", "t", ".">>
EntityIDs ==
  {ScriptDot \o <<"a">>,
   ScriptDot \o <<"b">>,
   ScriptDot,
   ScriptDot \o ScriptDot \o <<"a">>,
   <<"s", "c", "r", "i", "p", "t">>,
   <<"s", "c", "r", "i", "p", "t", "s", ".", "a">>,
   <<"S", "c", "r", "i", "p", "t", ".", "a">>,
   <<"l", "i", "g", "h", "t", ".", "a">>}

\* strings.HasPrefix(s, prefix)
HasPrefix(s, prefix) ==
  Len(s) >= Len(prefix) /\ SubSeq(s, 1, Len(prefix)) = prefix

\* strings.TrimPrefix(s, prefix)
TrimPrefix(s, prefix) ==
  IF HasPrefix(s, prefix) THEN SubSeq(s, Len(prefix) + 1, Len(s)) ELSE s

\* A value of state.Attributes: the key is absent, or it holds a string or
\* a value of another type.  friendly_name holds a sequence of characters,
\* description and mode hold a string.
NoName == [kind |-> "absent", v |-> <<>>]
Name(v) == [kind |-> "string", v |-> v]
NoText == [kind |-> "absent", v |-> ""]
Text(v) == [kind |-> "string", v |-> v]
Named(n) == [friendly_name |-> n, description |-> NoText, mode |-> NoText]
Attributes ==
  {Named(Name(<<>>)),
   Named([kind |-> "number", v |-> <<>>]),
   [friendly_name |-> Name(<<"A">>), description |-> Text("d"),
    mode |-> Text("single")],
   [friendly_name |-> NoName, description |-> Text(""), mode |-> Text("")]}

\* v, ok := state.Attributes[key].(string)
IsString(a) == a.kind = "string"

\* State, and the lists GET /api/states can return: every id with and
\* without a friendly name, and one script with the other attributes.
States ==
  [EntityID : EntityIDs, Attributes : {Named(NoName), Named(Name(<<"A">>))}]
  \cup [EntityID : {ScriptDot \o <<"a">>}, Attributes : Attributes]
StateLists == UNION {[1..n -> States] : n \in 0..MaxStates}

\* ScriptConfig: Sequence is a slice (nil or not), Description a pointer.
NilSlice == [nil |-> TRUE, items |-> <<>>]
Slice(items) == [nil |-> FALSE, items |-> items]
NilString == [nil |-> TRUE, v |-> ""]
ScriptConfig(id, alias, seq, mode, desc) ==
  [ID |-> id, Alias |-> alias, Sequence |-> seq, Mode |-> mode,
   Description |-> desc]

\* The lists GET /api/config/script/config can return.
ConfigLists ==
  {NilSlice, Slice(<<>>),
   Slice(<<ScriptConfig(<<"a">>, <<"A">>, Slice(<<"step">>), "single",
                        NilString)>>)}

\* The body of the loop over states, for a script entity.
AliasTrimmed(state) == TrimPrefix(state.EntityID, ScriptDot)

Alias(state) ==
  IF IsString(state.Attributes.friendly_name)
  THEN state.Attributes.friendly_name.v
  ELSE TrimPrefix(state.EntityID, ScriptDot)

Basic(state) ==
  LET a == state.Attributes IN
  ScriptConfig(state.EntityID, Alias(state), Slice(<<>>),
               IF IsString(a.mode) /\ a.mode.v # "" THEN a.mode.v ELSE "",
               IF IsString(a.description) /\ a.description.v # ""
               THEN [nil |-> FALSE, v |-> a.description.v]
               ELSE NilString)

\* configs = make([]ScriptConfig, 0); for _, state := range states {...}
RECURSIVE Fallback(_, _)
Fallback(configs, states) ==
  IF states = <<>> THEN configs
  ELSE IF ~HasPrefix(Head(states).EntityID, ScriptDot)
       THEN Fallback(configs, Tail(states))
       ELSE Fallback(Append(configs, Basic(Head(states))), Tail(states))

\* The ScriptList call: its position, the requests it has made, the list
\* or the error of the config endpoint, the states it was given and what
\* it returned.
NoScriptList ==
  [pc |-> "idle", queries |-> <<>>, body |-> NilSlice, err |-> ErrNil,
   states |-> <<>>, configs |-> NilSlice, retErr |-> ErrNil]

RestErrors == {<<"unexpected status", "404">>, <<"context canceled">>}

\* A command is the JSON object json.Marshal(cmd) makes of it: a function
\* from field names to values.  The fields in NumFields hold integers, the
\* others strings; the field "ch" holds a Go value that has no JSON
\* encoding.  An integer is written <<hi, lo>> for hi * 2^27 + lo, with
\* 0 <= lo < 2^27 and hi < 2^27.
Radix == 134217728
Exact == 67108864
NoCmd == [type |-> ""]
Ping == [type |-> "ping"]
Unsupported == [type |-> "ping", ch |-> "chan"]
NumFields == {"id", "config"}

\* json.Unmarshal(data, &cmdMap) stores every JSON number of the object as
\* a float64: an integer below 2^53 (hi < 2^26) is kept, one between 2^53
\* and 2^54 is rounded to the nearest even integer whose half is even on a
\* tie.
Float64(n) ==
  LET hi == n[1]
      lo == n[2]
  IN  IF hi < Exact \/ lo % 2 = 0 THEN n
      ELSE IF ((lo - 1) \div 2) % 2 = 0 THEN <<hi, lo - 1>>
      ELSE IF lo + 1 = Radix THEN <<hi + 1, 0>>
      ELSE <<hi, lo + 1>>

\* data, err := json.Marshal(cmd); json.Unmarshal(data, &cmdMap)
RoundTrip(c) ==
  [f \in DOMAIN c |-> IF f \in NumFields THEN Float64(c[f]) ELSE c[f]]

\* cmdMap["id"] = id
WithID(m, id) ==
  [f \in DOMAIN m \cup {"id"} |-> IF f = "id" THEN <<0, id>> ELSE m[f]]

\* The map sendCommand writes is built from a copy of the command; cmd is
\* only read.
Inject(p, c, id) ==
  /\ sent' = [sent EXCEPT ![p] = WithID(RoundTrip(c), id)]
  /\ cmd' = cmd

InitWith(urls) ==
  /\ baseURL \in urls
  /\ cws = NilWS
  /\ wsMu = Free
  /\ nSess = 0
  /\ ws = [s \in Sessions |-> NewWS]
  /\ pc = [p \in Callers |-> "idle"]
  /\ cmd = [p \in Callers |-> NoCmd]
  /\ sent = [p \in Callers |-> NoCmd]
  /\ rest = NoScriptList
  /\ target = [p \in Callers |-> FALSE]
  /\ cancelled = [p \in Callers |-> FALSE]
  /\ cur = [p \in Callers |-> NilWS]
  /\ myid = [p \in Callers |-> 0]
  /\ respCh = [p \in Callers |-> <<>>]
  /\ ret = [p \in Callers |-> NoRet]
  /\ calls = 0
  /\ orphan = [p \in Callers |-> FALSE]
  /\ kpc = "idle"
  /\ ksess = NilWS
  /\ closes = 0

Init == InitWith(BaseURLs)

\* ------------------------------------------------- the map ws.pending
\* A map from id to channel, as a set of <<id, channel>> with one pair per
\* id; a channel is named by the caller that made it.
MapHas(m, id) == \E e \in m : e[1] = id
MapGet(m, id) == (CHOOSE e \in m : e[1] = id)[2]
MapPut(m, id, ch) == {e \in m : e[1] # id} \cup {<<id, ch>>}
MapDeleteNone(m, id) == m

MapDelete(m, id) == {e \in m : e[1] # id}

InCall(p) == pc[p] \notin {"idle", "panic"}

ReturnIgnored(p, err) ==
  /\ pc' = [pc EXCEPT ![p] = "get_ws"]
  /\ ret' = [ret EXCEPT ![p] = [err |-> err, id |-> 0, result |-> "", val |-> ""]]

\* if err := c.connectWebSocket(ctx); err != nil { return err }
Return(p, err) ==
  /\ pc' = [pc EXCEPT ![p] = "idle"]
  /\ ret' = [ret EXCEPT ![p] = [err |-> err, id |-> 0, result |-> "", val |-> ""]]

\* ---------------------------------------------------------- wsCommand
\* wsCommand(ctx, cmd, result) is invoked with a fresh context, a command c
\* and a target (t: result is not nil).
Cmds == {Ping, Unsupported}

Call(p, c, t) ==
  /\ pc[p] = "idle"
  /\ calls < MaxCalls
  /\ calls' = calls + 1
  /\ cmd' = [cmd EXCEPT ![p] = c]
  /\ target' = [target EXCEPT ![p] = t]
  /\ ret' = [ret EXCEPT ![p] = NoRet]
  /\ cancelled' = [cancelled EXCEPT ![p] = FALSE]
  /\ orphan' = [orphan EXCEPT ![p] = FALSE]
  /\ cur' = [cur EXCEPT ![p] = NilWS]
  /\ myid' = [myid EXCEPT ![p] = 0]
  /\ sent' = [sent EXCEPT ![p] = NoCmd]
  /\ respCh' = [respCh EXCEPT ![p] = <<>>]
  /\ pc' = [pc EXCEPT ![p] = "c_lock"]
  /\ UNCHANGED <<clientVars, ws, closerVars, rest>>

\* The caller's context is cancelled (or its deadline passes).  The context
\* is looked at by DialContext and by the select of sendCommand only, so a
\* cancellation at any other moment is the same as one at the next of
\* these positions; the two handshake reads are kept because connect can
\* stay there forever.
CtxPoints == {"c_dial", "a_read1", "a_read2", "s_wait"}

Cancel(p) ==
  /\ pc[p] \in CtxPoints
  /\ ~cancelled[p]
  /\ cancelled' = [cancelled EXCEPT ![p] = TRUE]
  /\ UNCHANGED <<clientVars, ws, pc, callerLocals, respCh, ret, calls,
                 orphan, closerVars, rest>>

\* ----------------------------------------------------- connectWebSocket
IsLiveNever(ref, w) == FALSE

IsLiveStale(ref, w) == ref # NilWS

\* if c.ws != nil { select { case <-c.ws.done: default: return nil } }
IsLive(ref, w) == ref # NilWS /\ ~w[ref].done

\* url.Parse lower-cases the scheme.
ParsedScheme(sch) == IF sch = "HTTP" THEN "http" ELSE sch

TrimRight(pa, c) ==
  SubSeq(pa, 1, Len(pa) - Cardinality({i \in 1..Len(pa) :
                                        \A j \in i..Len(pa) : pa[j] = c}))

\* strings.TrimSuffix(u.Path, "/")
TrimSuffix(pa, c) ==
  IF Len(pa) > 0 /\ pa[Len(pa)] = c THEN SubSeq(pa, 1, Len(pa) - 1) ELSE pa

\* buildWebSocketURL: the switch on u.Scheme, and the URL it returns.
BuildFails(u) == ParsedScheme(u.scheme) \notin {"http", "https"}

buildWebSocketURL(u) ==
  URL(CASE ParsedScheme(u.scheme) = "http" -> "ws"
        [] ParsedScheme(u.scheme) = "https" -> "wss",
      u.host,
      TrimSuffix(u.path, "/") \o <<"/api/websocket">>)

\* c.wsMu.Lock() with a live session: return nil (and unlock).
ConnAlready(p) ==
  /\ pc[p] = "c_lock"
  /\ wsMu = Free
  /\ IsLive(cws, ws)
  /\ pc' = [pc EXCEPT ![p] = "get_ws"]
  /\ UNCHANGED <<clientVars, ws, callerLocals, cancelled, respCh, ret,
                 calls, orphan, closerVars, rest>>

\* c.wsMu.Lock() without a live session; buildWebSocketURL fails.
ConnBuildFail(p) ==
  /\ pc[p] = "c_lock"
  /\ wsMu = Free
  /\ ~IsLive(cws, ws)
  /\ BuildFails(baseURL)
  /\ Return(p, <<"build websocket URL", "unsupported scheme",
                 ParsedScheme(baseURL.scheme)>>)
  /\ UNCHANGED <<clientVars, ws, callerLocals, cancelled, respCh, calls,
                 orphan, closerVars, rest>>

\* c.wsMu.Lock() without a live session; the URL is built; c.wsMu stays
\* locked until connectWebSocket returns.
ConnBegin(p) ==
  /\ pc[p] = "c_lock"
  /\ wsMu = Free
  /\ ~IsLive(cws, ws)
  /\ ~BuildFails(baseURL)
  /\ wsMu' = p
  /\ pc' = [pc EXCEPT ![p] = "c_dial"]
  /\ UNCHANGED <<baseURL, cws, nSess, ws, callerLocals, cancelled, respCh,
                 ret, calls, orphan, closerVars, rest>>

\* dialer.DialContext fails: refused, handshake timeout, or ctx done.
DialFail(p) ==
  /\ pc[p] = "c_dial"
  /\ wsMu' = Free
  /\ Return(p, Wrap("websocket dial", IF cancelled[p] THEN ErrCtx ELSE ErrIO))
  /\ UNCHANGED <<baseURL, cws, nSess, ws, callerLocals, cancelled, respCh,
                 calls, orphan, closerVars, rest>>

\* dialer.DialContext succeeds; ws := &wsConn{...}
DialOK(p) ==
  /\ pc[p] = "c_dial"
  /\ ~cancelled[p]
  /\ nSess < MaxSessions
  /\ nSess' = nSess + 1
  /\ ws' = [ws EXCEPT ![nSess + 1].dialed = TRUE,
                      ![nSess + 1].url = buildWebSocketURL(baseURL),
                      ![nSess + 1].hs = "AwaitRequired"]
  /\ cur' = [cur EXCEPT ![p] = nSess + 1]
  /\ pc' = [pc EXCEPT ![p] = "a_read1"]
  /\ UNCHANGED <<baseURL, cws, wsMu, cmd, target, myid, sent, cancelled,
                 respCh, ret, calls, orphan, closerVars, rest>>

\* A failed authenticate: conn.Close(); return "websocket auth: ..."
AuthFailLeak(p, s, w, err) ==
  /\ ws' = [w EXCEPT ![s].hs = "failed"]
  /\ wsMu' = Free
  /\ Return(p, Wrap("websocket auth", err))
  /\ UNCHANGED <<baseURL, cws, nSess, callerLocals, cancelled, respCh,
                 calls, orphan, closerVars, rest>>

AuthFail(p, s, w, err) ==
  /\ ws' = [w EXCEPT ![s].connClosed = TRUE, ![s].hs = "failed"]
  /\ wsMu' = Free
  /\ Return(p, Wrap("websocket auth", err))
  /\ UNCHANGED <<baseURL, cws, nSess, callerLocals, cancelled, respCh,
                 calls, orphan, closerVars, rest>>

\* The connection can be read: it is neither closed locally nor dropped.
Readable(w) == ~w.connClosed /\ w.remote = "up"

\* ws.conn.ReadJSON(&authReq) and the check of its type
FirstOKAny(m) == TRUE

FirstOK(m) == m.type = "auth_required"

AuthRead1(p, m) ==
  /\ pc[p] = "a_read1"
  /\ Readable(ws[cur[p]])
  /\ LET s == cur[p] IN
        IF FirstOK(m)
        THEN /\ ws' = [ws EXCEPT ![s].hs = "SendCredential"]
             /\ pc' = [pc EXCEPT ![p] = "a_write"]
             /\ UNCHANGED <<clientVars, callerLocals, cancelled, respCh,
                            ret, calls, orphan, closerVars, rest>>
        ELSE AuthFail(p, s, ws, <<"expected auth_required, got", m.type>>)

AuthRead1Err(p) ==
  /\ pc[p] = "a_read1"
  /\ ~Readable(ws[cur[p]])
  /\ AuthFail(p, cur[p], ws, Wrap("read auth_required", ErrIO))

\* ws.conn.WriteJSON(authMsg); a write on a dropped connection may or may
\* not report the failure.
AuthWrite(p) ==
  /\ pc[p] = "a_write"
  /\ ws' = [ws EXCEPT ![cur[p]].sentAuth = wsAuthMessage(Token),
                      ![cur[p]].hs = "AwaitOutcome"]
  /\ pc' = [pc EXCEPT ![p] = "a_read2"]
  /\ UNCHANGED <<clientVars, callerLocals, cancelled, respCh, ret, calls,
                 orphan, closerVars, rest>>

AuthWriteFail(p) ==
  /\ pc[p] = "a_write"
  /\ ws[cur[p]].remote = "dropped"
  /\ AuthFail(p, cur[p], ws, Wrap("write auth", ErrIO))

\* ws.conn.ReadJSON(&authResp) and the switch on its type; on auth_ok
\* connectWebSocket runs `go ws.reader()` and `c.ws = ws`.
AuthOutcomeLenient(m) ==
  CASE m.type \in {"auth_ok", "auth_invalid"} -> ErrNil
    [] OTHER -> <<"unexpected auth response", m.type>>

AuthOutcome(m) ==
  CASE m.type = "auth_ok" -> ErrNil
    [] m.type = "auth_invalid" ->
         <<"auth failed",
           IF m.message = "" THEN "invalid authentication" ELSE m.message>>
    [] OTHER -> <<"unexpected auth response", m.type>>

StartReaderTwice(w) == [w EXCEPT !.rpc = "run", !.readers = @ + 2]

\* go ws.reader()
StartReader(w) == [w EXCEPT !.rpc = "run", !.readers = @ + 1]

AuthRead2(p, m) ==
  /\ pc[p] = "a_read2"
  /\ Readable(ws[cur[p]])
  /\ LET s == cur[p] IN
        IF AuthOutcome(m) = ErrNil
        THEN /\ ws' = [ws EXCEPT ![s] = StartReader([@ EXCEPT !.hs = "ok"])]
             /\ cws' = s
             /\ wsMu' = Free
             /\ pc' = [pc EXCEPT ![p] = "get_ws"]
             /\ UNCHANGED <<baseURL, nSess, callerLocals, cancelled, respCh,
                            ret, calls, orphan, closerVars, rest>>
        ELSE AuthFail(p, s, ws, AuthOutcome(m))

AuthRead2Err(p) ==
  /\ pc[p] = "a_read2"
  /\ ~Readable(ws[cur[p]])
  /\ AuthFail(p, cur[p], ws, Wrap("read auth response", ErrIO))

\* The network or the server drops connection s.
Drop(s) ==
  /\ ws[s].dialed
  /\ ws[s].remote = "up"
  /\ ~ws[s].connClosed
  /\ ws' = [ws EXCEPT ![s].remote = "dropped"]
  /\ UNCHANGED <<clientVars, pc, callerLocals, cancelled, respCh, ret,
                 calls, orphan, closerVars, rest>>

\* ------------------------------------------------------------ wsCommand
\* resp, err := c.ws.sendCommand(ctx, cmd): c.ws is read without c.wsMu.
\* The caller does nothing between the return of connectWebSocket and this
\* read, so a read that observes an older value of c.ws is the same as this
\* step taken earlier.  A nil c.ws makes ws.msgID.Add(1) dereference nil:
\* the goroutine panics.
ReadRef(ref) == ref

GetWS(p) ==
  /\ pc[p] = "get_ws"
  /\ IF ReadRef(cws) = NilWS
     THEN /\ pc' = [pc EXCEPT ![p] = "panic"]
          /\ cur' = cur
     ELSE /\ pc' = [pc EXCEPT ![p] = "s_id"]
          /\ cur' = [cur EXCEPT ![p] = ReadRef(cws)]
  /\ UNCHANGED <<clientVars, ws, cmd, target, myid, sent, cancelled, respCh,
                 ret, calls, orphan, closerVars, rest>>

\* ---------------------------------------------------------- sendCommand
\* id := ws.msgID.Add(1)
NextIDNoAdd(n) == n

NextIDWraps(n) == (n + 1) % 2

NextID(n) == n + 1

SendNextID(p) ==
  /\ pc[p] = "s_id"
  /\ LET s == cur[p] IN
     /\ ws' = [ws EXCEPT ![s].msgID = NextID(@)]
     /\ myid' = [myid EXCEPT ![p] = NextID(ws[s].msgID)]
  /\ pc' = [pc EXCEPT ![p] = "s_reg"]
  /\ UNCHANGED <<clientVars, cmd, target, cur, sent, cancelled, respCh, ret,
                 calls, orphan, closerVars, rest>>

\* respCh := make(chan *wsResponse, 1); ws.pending[id] = respCh
Register(p) ==
  /\ pc[p] = "s_reg"
  /\ ws[cur[p]].pendingMu = Free
  /\ ws' = [ws EXCEPT ![cur[p]].pending = MapPut(@, myid[p], p)]
  /\ respCh' = [respCh EXCEPT ![p] = <<>>]
  /\ pc' = [pc EXCEPT ![p] = "s_write"]
  /\ UNCHANGED <<clientVars, callerLocals, cancelled, ret, calls, orphan,
                 closerVars, rest>>

SendFailRetries(p, err) ==
  /\ ret' = [ret EXCEPT ![p] = [err |-> err, id |-> 0, result |-> "", val |-> ""]]
  /\ pc' = [pc EXCEPT ![p] = "c_lock"]

\* sendCommand returns (nil, err); the deferred delete is still to run.
SendFail(p, err) ==
  /\ ret' = [ret EXCEPT ![p] = [err |-> err, id |-> 0, result |-> "", val |-> ""]]
  /\ pc' = [pc EXCEPT ![p] = "s_defer"]

\* json.Marshal(cmd) fails: the command holds a value of a type that has
\* no JSON encoding.
Marshalable(c) == "ch" \notin DOMAIN c

MarshalFail(p) ==
  /\ pc[p] = "s_write"
  /\ ~Marshalable(cmd[p])
  /\ SendFail(p, <<"marshal command", "unsupported type">>)
  /\ UNCHANGED <<clientVars, ws, callerLocals, cancelled, respCh, calls,
                 orphan, closerVars, rest>>

\* ws.mu.Lock(); the write begins
MuFreeAlways(w) == TRUE

MuFree(w) == w.mu = Free

WriteBegin(p) ==
  /\ pc[p] = "s_write"
  /\ Marshalable(cmd[p])
  /\ MuFree(ws[cur[p]])
  /\ ws' = [ws EXCEPT ![cur[p]].mu = p]
  /\ pc' = [pc EXCEPT ![p] = "s_writing"]
  /\ Inject(p, cmd[p], myid[p])
  /\ UNCHANGED <<clientVars, target, cur, myid, cancelled, respCh, ret,
                 calls, orphan, closerVars, rest>>

\* err = ws.conn.WriteJSON(cmdMap); ws.mu.Unlock().  The write fails on a
\* connection closed locally, and may or may not fail on a dropped one.
WriteOK(p) ==
  /\ pc[p] = "s_writing"
  /\ ~ws[cur[p]].connClosed
  /\ ws' = [ws EXCEPT ![cur[p]].mu = Free]
  /\ pc' = [pc EXCEPT ![p] = "s_wait"]
  /\ UNCHANGED <<clientVars, callerLocals, cancelled, respCh, ret, calls,
                 orphan, closerVars, rest>>

WriteFail(p) ==
  /\ pc[p] = "s_writing"
  /\ ws[cur[p]].connClosed \/ ws[cur[p]].remote = "dropped"
  /\ ws' = [ws EXCEPT ![cur[p]].mu = Free]
  /\ SendFail(p, Wrap("write command", ErrIO))
  /\ UNCHANGED <<clientVars, callerLocals, cancelled, respCh, calls,
                 orphan, closerVars, rest>>

SelectCtxDeaf(p) ==
  /\ pc[p] = "s_wait"
  /\ cancelled[p]
  /\ respCh[p] # <<>>
  /\ SendFail(p, ErrCtx)
  /\ UNCHANGED <<clientVars, ws, callerLocals, cancelled, respCh, calls,
                 orphan, closerVars, rest>>

\* select { case <-ctx.Done(): ... case <-ws.done: ... case resp := <-respCh: ... }
\* Go picks among the ready cases at random.
SelectCtx(p) ==
  /\ pc[p] = "s_wait"
  /\ cancelled[p]
  /\ SendFail(p, ErrCtx)
  /\ UNCHANGED <<clientVars, ws, callerLocals, cancelled, respCh, calls,
                 orphan, closerVars, rest>>

SelectDoneNever(p) ==
  /\ FALSE
  /\ pc[p] = "s_wait"
  /\ SendFail(p, ErrClosed)
  /\ UNCHANGED <<clientVars, ws, callerLocals, cancelled, respCh, calls,
                 orphan, closerVars, rest>>

SelectDoneEarly(p) ==
  /\ pc[p] = "s_wait"
  /\ SendFail(p, ErrClosed)
  /\ UNCHANGED <<clientVars, ws, callerLocals, cancelled, respCh, calls,
                 orphan, closerVars, rest>>

\* case <-ws.done: return nil, fmt.Errorf("websocket connection closed")
SelectDone(p) ==
  /\ pc[p] = "s_wait"
  /\ ws[cur[p]].done
  /\ SendFail(p, ErrClosed)
  /\ UNCHANGED <<clientVars, ws, callerLocals, cancelled, respCh, calls,
                 orphan, closerVars, rest>>

\* The error sendCommand derives from a received response.
RespErrSuccessFirst(resp) ==
  IF resp.success THEN ErrNil
  ELSE IF resp.error # NoError THEN WebSocketError(resp.error)
  ELSE IF resp.type = "result" THEN ErrCmdFailed
  ELSE ErrNil

RespErrNoGeneric(resp) ==
  IF resp.error # NoError THEN WebSocketError(resp.error) ELSE ErrNil

RespErr(resp) ==
  IF resp.error # NoError THEN WebSocketError(resp.error)
  ELSE IF ~resp.success /\ resp.type = "result" THEN ErrCmdFailed
  ELSE ErrNil

SelectResp(p) ==
  /\ pc[p] = "s_wait"
  /\ respCh[p] # <<>>
  /\ LET resp == Head(respCh[p]) IN
     ret' = [ret EXCEPT ![p] =
               [err |-> RespErr(resp), id |-> resp.id,
                result |-> IF RespErr(resp) = ErrNil THEN resp.result ELSE "",
                val |-> ""]]
  /\ respCh' = [respCh EXCEPT ![p] = Tail(@)]
  /\ pc' = [pc EXCEPT ![p] = "s_defer"]
  /\ UNCHANGED <<clientVars, ws, callerLocals, cancelled, calls, orphan,
                 closerVars, rest>>

\* json.Unmarshal(resp.Result, result) into the caller's target, which is a
\* pointer to a map: a payload that is not a JSON object is an error.
Decodable(raw) == raw = "{\"pong\":true}"
Decode(raw) == IF raw = "{\"pong\":true}" THEN "map[pong:true]" ELSE "?"

\* if result != nil && len(resp.Result) > 0
WantsDecodeAlways(t, raw) == t

WantsDecode(t, raw) == t /\ raw # ""

\* What wsCommand returns after a sendCommand that returned r.
Outcome(r, t) ==
  IF r.err # ErrNil \/ ~WantsDecode(t, r.result) THEN [r EXCEPT !.val = ""]
  ELSE IF Decodable(r.result) THEN [r EXCEPT !.val = Decode(r.result)]
  ELSE [r EXCEPT !.err = <<"decode result", "cannot unmarshal">>, !.val = ""]

\* The deferred delete(ws.pending, id), then the rest of wsCommand: return
\* the error, or decode the result when a target was given and the payload
\* is not empty.  respCh is unreachable from here on.
Unregister(p) ==
  /\ pc[p] = "s_defer"
  /\ ws[cur[p]].pendingMu = Free
  /\ ws' = [ws EXCEPT ![cur[p]].pending = MapDelete(@, myid[p])]
  /\ ret' = [ret EXCEPT ![p] = Outcome(ret[p], target[p])]
  /\ respCh' = [respCh EXCEPT ![p] = <<>>]
  /\ pc' = [pc EXCEPT ![p] = "idle"]
  /\ UNCHANGED <<clientVars, callerLocals, cancelled, calls, orphan,
                 closerVars, rest>>

\* --------------------------------------------------------------- reader
ReaderThread == NCallers + 2

\* if ch, ok := ws.pending[resp.ID]; ok: the waiter the response goes to
WaiterOldest(m, id) == (CHOOSE e \in m : \A f \in m : e[1] <= f[1])[2]

Waiter(m, id) == MapGet(m, id)
Registered(m, id) == id # 0 /\ MapHas(m, id)

RegistryShared(w, s) == UNION {w[t].pending : t \in Sessions}

\* ws.pending: the map of the reader's own wsConn
Registry(w, s) == w[s].pending

NoteDeliver(h) == IF h = "drop" THEN "drop_then_deliver" ELSE h
NoteDrop(h) == IF h = "none" THEN "drop" ELSE h

ReaderDeliverKeeps(s, m) ==
  /\ ws[s].rpc = "run"
  /\ Readable(ws[s])
  /\ ws[s].pendingMu = Free
  /\ Registered(Registry(ws, s), m.id)
  /\ LET ch == Waiter(Registry(ws, s), m.id) IN
     IF Len(respCh[ch]) < RespChCap
     THEN /\ respCh' = [respCh EXCEPT ![ch] = Append(@, m)]
          /\ ws' = [ws EXCEPT ![s].rhist = NoteDeliver(@)]
     ELSE /\ ws' = [ws EXCEPT ![s].pendingMu = ReaderThread,
                              ![s].rpc = "blocked"]
          /\ respCh' = respCh
  /\ UNCHANGED <<clientVars, pc, callerLocals, cancelled, ret, calls,
                 orphan, closerVars, rest>>

\* ReadJSON returns m; its id is registered: ch <- &resp; delete(...).
\* The send blocks, with pendingMu held, when the channel is full.
ReaderDeliver(s, m) ==
  /\ ws[s].rpc = "run"
  /\ Readable(ws[s])
  /\ ws[s].pendingMu = Free
  /\ Registered(Registry(ws, s), m.id)
  /\ LET ch == Waiter(Registry(ws, s), m.id) IN
     IF Len(respCh[ch]) < RespChCap
     THEN /\ respCh' = [respCh EXCEPT ![ch] = Append(@, m)]
          /\ ws' = [ws EXCEPT ![s].pending = MapDelete(@, m.id),
                              ![s].rhist = NoteDeliver(@)]
     ELSE /\ ws' = [ws EXCEPT ![s].pendingMu = ReaderThread,
                              ![s].rpc = "blocked"]
          /\ respCh' = respCh
  /\ UNCHANGED <<clientVars, pc, callerLocals, cancelled, ret, calls,
                 orphan, closerVars, rest>>

\* ReadJSON returns m; its id is zero or not registered: nothing happens.
ReaderIgnoreStops(s, m) ==
  /\ ws[s].rpc = "run"
  /\ Readable(ws[s])
  /\ m.id # 0 => ws[s].pendingMu = Free
  /\ ~Registered(Registry(ws, s), m.id)
  /\ ws' = [ws EXCEPT ![s].rhist = NoteDrop(@), ![s].rpc = "exit"]
  /\ UNCHANGED <<clientVars, pc, callerLocals, cancelled, respCh, ret,
                 calls, orphan, closerVars, rest>>

ReaderIgnore(s, m) ==
  /\ ws[s].rpc = "run"
  /\ Readable(ws[s])
  /\ m.id # 0 => ws[s].pendingMu = Free
  /\ ~Registered(Registry(ws, s), m.id)
  /\ ws' = [ws EXCEPT ![s].rhist = NoteDrop(@)]
  /\ UNCHANGED <<clientVars, pc, callerLocals, cancelled, respCh, ret,
                 calls, orphan, closerVars, rest>>

\* ----------------------------------------------------------- ws.close()
\* closeOnce.Do(f) runs f for the first caller only; a caller that arrives
\* while f runs waits until f has returned.
OnceAlways(w) == TRUE

OnceFirst(w) == w.once = "new"

\* close(ws.done)
CloseDoneNoSignal(w) ==
  [w EXCEPT !.once = "running", !.doneCloses = @ + 1]

CloseDone(w) ==
  [w EXCEPT !.once = "running", !.done = TRUE, !.doneCloses = @ + 1]

\* ws.conn.Close(), and f returns
CloseConn(w) == [w EXCEPT !.once = "done", !.connClosed = TRUE]

\* The calls registered in ws.pending.
PendingCalls(w) == {e[2] : e \in w.pending}

\* The reader's ReadJSON fails and reader returns, which runs the deferred
\* ws.close(); the reader is the first in closeOnce.Do.
ReaderCloseBegin(s) ==
  /\ ws[s].rpc = "run"
  /\ ~Readable(ws[s])
  /\ OnceFirst(ws[s])
  /\ ws' = [ws EXCEPT ![s] = [CloseDone(@) EXCEPT !.rpc = "closing2"]]
  /\ orphan' = [p \in Callers |-> orphan[p] \/ p \in PendingCalls(ws[s])]
  /\ UNCHANGED <<clientVars, pc, callerLocals, cancelled, respCh, ret,
                 calls, closerVars, rest>>

ReaderCloseEnd(s) ==
  /\ ws[s].rpc = "closing2"
  /\ ws' = [ws EXCEPT ![s] = [CloseConn(@) EXCEPT !.rpc = "exit"]]
  /\ UNCHANGED <<clientVars, pc, callerLocals, cancelled, respCh, ret,
                 calls, orphan, closerVars, rest>>

\* The reader's ReadJSON fails after CloseWebSocket has closed the session:
\* closeOnce.Do does nothing.
ReaderCloseSkip(s) ==
  /\ ws[s].rpc = "run"
  /\ ~Readable(ws[s])
  /\ ws[s].once = "done"
  /\ ws' = [ws EXCEPT ![s].rpc = "exit"]
  /\ orphan' = [p \in Callers |-> orphan[p] \/ p \in PendingCalls(ws[s])]
  /\ UNCHANGED <<clientVars, pc, callerLocals, cancelled, respCh, ret,
                 calls, closerVars, rest>>

\* -------------------------------------------------------- CloseWebSocket
\* c.wsMu.Lock(); c.ws == nil; c.wsMu.Unlock()
CloseWebSocketNil ==
  /\ kpc = "idle"
  /\ closes < MaxCloses
  /\ wsMu = Free
  /\ cws = NilWS
  /\ closes' = closes + 1
  /\ UNCHANGED <<clientVars, ws, pc, callerLocals, cancelled, respCh, ret,
                 calls, orphan, kpc, ksess, rest>>

CloseWebSocketForgets ==
  /\ kpc = "idle"
  /\ closes < MaxCloses
  /\ wsMu = Free
  /\ cws # NilWS
  /\ closes' = closes + 1
  /\ wsMu' = Closer
  /\ cws' = NilWS
  /\ ksess' = cws
  /\ kpc' = "k_close"
  /\ UNCHANGED <<baseURL, nSess, ws, pc, callerLocals, cancelled,
                 respCh, ret, calls, orphan, rest>>

\* c.wsMu.Lock(); c.ws != nil: c.ws.close() is called
CloseWebSocket ==
  /\ kpc = "idle"
  /\ closes < MaxCloses
  /\ wsMu = Free
  /\ cws # NilWS
  /\ closes' = closes + 1
  /\ wsMu' = Closer
  /\ ksess' = cws
  /\ kpc' = "k_close"
  /\ UNCHANGED <<baseURL, cws, nSess, ws, pc, callerLocals, cancelled,
                 respCh, ret, calls, orphan, rest>>

CloserCloseBegin ==
  /\ kpc = "k_close"
  /\ OnceFirst(ws[ksess])
  /\ ws' = [ws EXCEPT ![ksess] = CloseDone(@)]
  /\ kpc' = "k_close2"
  /\ UNCHANGED <<clientVars, pc, callerLocals, cancelled, respCh, ret,
                 calls, orphan, ksess, closes, rest>>

CloserCloseEnd ==
  /\ kpc = "k_close2"
  /\ ws' = [ws EXCEPT ![ksess] = CloseConn(@)]
  /\ kpc' = "k_clear"
  /\ UNCHANGED <<clientVars, pc, callerLocals, cancelled, respCh, ret,
                 calls, orphan, ksess, closes, rest>>

\* c.ws = nil; c.wsMu.Unlock()
ClearRef ==
  /\ cws' = NilWS
  /\ wsMu' = Free
  /\ kpc' = "idle"
  /\ ksess' = NilWS
  /\ UNCHANGED <<baseURL, nSess, ws, pc, callerLocals, cancelled, respCh,
                 ret, calls, orphan, closes, rest>>

\* The reader has closed the session already: closeOnce.Do does nothing.
CloserCloseSkip ==
  /\ kpc = "k_close"
  /\ ws[ksess].once = "done"
  /\ ClearRef

CloseClear ==
  /\ kpc = "k_clear"
  /\ ClearRef

\* ------------------------------------------------------- specification
\* ------------------------------------------------------- specifications
\* The steps of the client are the same in every specification; the
\* specifications differ in what the environment does.

\* Subsets of what the server sends.
PlainShape == Shape("result", TRUE, NoError, "{\"pong\":true}")
Msg(i, sh) == [id |-> i, type |-> sh.type, success |-> sh.success,
               error |-> sh.error, result |-> sh.result]
PlainMsgs == {Msg(i, PlainShape) : i \in MsgIDs}
HsRequired == {HsMsg("auth_required", "")}
HsOK == {HsMsg("auth_ok", "")}

\* connectWebSocket and sendCommand when nothing fails.
ClientSteps ==
  \/ \E p \in Callers : ConnAlready(p)
  \/ \E p \in Callers : ConnBuildFail(p)
  \/ \E p \in Callers : ConnBegin(p)
  \/ \E p \in Callers : DialFail(p)
  \/ \E p \in Callers : DialOK(p)
  \/ \E p \in Callers : AuthWrite(p)
  \/ \E p \in Callers : GetWS(p)
  \/ \E p \in Callers : SendNextID(p)
  \/ \E p \in Callers : Register(p)
  \/ \E p \in Callers : WriteBegin(p)
  \/ \E p \in Callers : WriteOK(p)
  \/ \E p \in Callers : SelectResp(p)
  \/ \E p \in Callers : Unregister(p)

\* What a dropped or closed connection makes the client do.
FailureSteps ==
  \/ \E s \in Sessions : Drop(s)
  \/ \E p \in Callers : AuthRead1Err(p)
  \/ \E p \in Callers : AuthWriteFail(p)
  \/ \E p \in Callers : AuthRead2Err(p)
  \/ \E p \in Callers : WriteFail(p)
  \/ \E p \in Callers : SelectDone(p)
  \/ \E s \in Sessions : ReaderCloseBegin(s)
  \/ \E s \in Sessions : ReaderCloseEnd(s)

CancelSteps ==
  \/ \E p \in Callers : Cancel(p)
  \/ \E p \in Callers : SelectCtx(p)

CloserSteps ==
  \/ CloseWebSocketNil
  \/ CloseWebSocket
  \/ CloserCloseBegin
  \/ CloserCloseEnd
  \/ CloserCloseSkip
  \/ CloseClear
  \/ \E s \in Sessions : ReaderCloseSkip(s)

\* Any command, any server.
AnyCalls ==
  \/ \E p \in Callers, c \in Cmds, t \in BOOLEAN : Call(p, c, t)
  \/ \E p \in Callers : MarshalFail(p)

AnyServer ==
  \/ \E p \in Callers, m \in HsMsgs : AuthRead1(p, m)
  \/ \E p \in Callers, m \in HsMsgs : AuthRead2(p, m)
  \/ \E s \in Sessions, m \in Msgs : ReaderDeliver(s, m)
  \/ \E s \in Sessions, m \in PlainMsgs : ReaderIgnore(s, m)

\* Any command, with a target.
CmdCalls ==
  \/ \E p \in Callers, c \in Cmds : Call(p, c, TRUE)
  \/ \E p \in Callers : MarshalFail(p)

\* A command that can be marshalled; a server that completes the handshake
\* and sends plain successful results for ids that are registered.
PlainCalls == \E p \in Callers : Call(p, Ping, TRUE)

PlainServer ==
  \/ \E p \in Callers, m \in HsRequired : AuthRead1(p, m)
  \/ \E p \in Callers, m \in HsOK : AuthRead2(p, m)
  \/ \E s \in Sessions, m \in PlainMsgs : ReaderDeliver(s, m)

\* ---------------------------------------------------------- ScriptList
\* ScriptList(ctx) is called.
ScriptList ==
  /\ rest.pc \in {"idle", "done"}
  /\ rest' = [NoScriptList EXCEPT !.pc = "config"]
  /\ UNCHANGED <<clientVars, ws, pc, callerLocals, cancelled, respCh, ret,
                 calls, orphan, closerVars>>

\* c.doJSON(ctx, GET, "/api/config/script/config", nil, &configs) succeeds:
\* return configs, nil
ConfigOK(list) ==
  /\ rest.pc = "config"
  /\ rest' = [rest EXCEPT !.pc = "done",
                          !.queries = Append(@, "/api/config/script/config"),
                          !.body = list,
                          !.configs = list]
  /\ UNCHANGED <<clientVars, ws, pc, callerLocals, cancelled, respCh, ret,
                 calls, orphan, closerVars>>

\* ... or fails with err
ConfigFail(err) ==
  /\ rest.pc = "config"
  /\ rest' = [rest EXCEPT !.pc = "states",
                          !.queries = Append(@, "/api/config/script/config"),
                          !.err = err]
  /\ UNCHANGED <<clientVars, ws, pc, callerLocals, cancelled, respCh, ret,
                 calls, orphan, closerVars>>

\* states, statesErr := c.States(ctx) succeeds: the loop, return configs, nil
StatesOK(states) ==
  /\ rest.pc = "states"
  /\ rest' = [rest EXCEPT !.pc = "done",
                          !.queries = Append(@, "/api/states"),
                          !.states = states,
                          !.configs = Slice(Fallback(<<>>, states))]
  /\ UNCHANGED <<clientVars, ws, pc, callerLocals, cancelled, respCh, ret,
                 calls, orphan, closerVars>>

\* ... or fails with statesErr: return nil, fmt.Errorf(...)
StatesFail(statesErr) ==
  /\ rest.pc = "states"
  /\ rest' = [rest EXCEPT
       !.pc = "done",
       !.queries = Append(@, "/api/states"),
       !.retErr = <<"script list: config endpoint failed">> \o rest.err
                    \o <<"states fallback also failed">> \o statesErr]
  /\ UNCHANGED <<clientVars, ws, pc, callerLocals, cancelled, respCh, ret,
                 calls, orphan, closerVars>>

NextScripts ==
  \/ ScriptList
  \/ \E list \in ConfigLists : ConfigOK(list)
  \/ \E err \in RestErrors : ConfigFail(err)
  \/ rest.pc = "states" /\ \E states \in StateLists : StatesOK(states)
  \/ \E err \in RestErrors : StatesFail(err)

SpecScripts == Init /\ [][NextScripts]_vars

\* Commands with a field id of their own and with integer payloads, one of
\* them 2^53 + 1; a plain server.
BigInt == <<Exact, 1>>
CopyCmds ==
  {Ping,
   [type |-> "ping", id |-> <<0, 7>>],
   [type |-> "lovelace/config/save", config |-> <<0, 7>>],
   [type |-> "lovelace/config/save", config |-> BigInt]}

CopyCalls == \E p \in Callers, c \in CopyCmds, t \in BOOLEAN : Call(p, c, t)

NextCopy == CopyCalls \/ PlainServer \/ ClientSteps

SpecCopy == Init /\ [][NextCopy]_vars

\* Everything.
Next ==
  \/ AnyCalls \/ AnyServer \/ ClientSteps
  \/ FailureSteps \/ CancelSteps \/ CloserSteps
  \/ CopyCalls \/ NextScripts

Spec == Init /\ [][Next]_vars

\* Any command and any server; no context is cancelled, no connection
\* drops, CloseWebSocket is not called.
NextRPC == AnyCalls \/ AnyServer \/ ClientSteps

SpecRPC == Init /\ [][NextRPC]_vars

\* Any server in the handshake, whose connection may drop at any moment.
NextConnect ==
  \/ PlainCalls \/ ClientSteps \/ FailureSteps
  \/ \E p \in Callers, m \in HsMsgs : AuthRead1(p, m)
  \/ \E p \in Callers, m \in HsMsgs : AuthRead2(p, m)
  \/ \E s \in Sessions, m \in PlainMsgs : ReaderDeliver(s, m)

SpecConnect == Init /\ [][NextConnect]_vars

\* Connections drop and CloseWebSocket is called, with a plain server.
NextClose ==
  \/ PlainCalls \/ PlainServer \/ ClientSteps
  \/ FailureSteps \/ CloserSteps

SpecClose == Init /\ [][NextClose]_vars

\* Connections drop and contexts are cancelled, with any command and a
\* plain server; CloseWebSocket is not called.
NextDrop ==
  \/ CmdCalls \/ PlainServer \/ ClientSteps
  \/ FailureSteps \/ CancelSteps

SpecDrop == Init /\ [][NextDrop]_vars

\* The steps a goroutine takes by itself once it can: everything but the
\* start of a call and the reads that wait for the server.  DialContext
\* returns within its HandshakeTimeout.
CallerProgress(p) ==
  \/ ConnAlready(p) \/ ConnBuildFail(p) \/ ConnBegin(p)
  \/ DialFail(p) \/ DialOK(p)
  \/ AuthRead1Err(p) \/ AuthWrite(p) \/ AuthWriteFail(p) \/ AuthRead2Err(p)
  \/ GetWS(p) \/ SendNextID(p) \/ Register(p) \/ MarshalFail(p)
  \/ WriteBegin(p) \/ WriteOK(p) \/ WriteFail(p)
  \/ SelectCtx(p) \/ SelectDone(p) \/ SelectResp(p) \/ Unregister(p)

ReaderProgress(s) ==
  ReaderCloseBegin(s) \/ ReaderCloseEnd(s) \/ ReaderCloseSkip(s)

CloserProgress ==
  CloserCloseBegin \/ CloserCloseEnd \/ CloserCloseSkip \/ CloseClear

\* The Go scheduler runs every goroutine that can run.
Scheduling ==
  /\ \A p \in Callers : WF_vars(CallerProgress(p))
  /\ \A s \in Sessions : WF_vars(ReaderProgress(s))
  /\ WF_vars(CloserProgress)

FairDrop == SpecDrop /\ Scheduling

FairClose == SpecClose /\ Scheduling

FairConnect == SpecConnect /\ Scheduling

\* Every way a call returns: any command, results and remote errors,
\* connections that drop, contexts that are cancelled; CloseWebSocket is
\* not called.
ErrorShape == Shape("result", FALSE, <<"not_found", "x">>, "")
ReturnMsgs == {Msg(i, sh) : i \in MsgIDs, sh \in {PlainShape, ErrorShape}}

NextReturns ==
  \/ CmdCalls \/ ClientSteps \/ FailureSteps \/ CancelSteps
  \/ \E p \in Callers, m \in HsRequired : AuthRead1(p, m)
  \/ \E p \in Callers, m \in HsOK : AuthRead2(p, m)
  \/ \E s \in Sessions, m \in ReturnMsgs : ReaderDeliver(s, m)

SpecReturns == Init /\ [][NextReturns]_vars

\* Any base URL; connect up to the dial.
InitURL == InitWith(URLs)

NextURL ==
  \/ PlainCalls
  \/ \E p \in Callers : ConnBuildFail(p)
  \/ \E p \in Callers : ConnBegin(p)
  \/ \E p \in Callers : DialFail(p)
  \/ \E p \in Callers : DialOK(p)

SpecURL == InitURL /\ [][NextURL]_vars

\* Contexts are cancelled, with any server; no connection drops and
\* CloseWebSocket is not called.
NextCancel == PlainCalls \/ AnyServer \/ ClientSteps \/ CancelSteps

SpecCancel == Init /\ [][NextCancel]_vars

\* ================================================================ claims
\* The positions of sendCommand at which id has been assigned.
HasID == {"s_reg", "s_write", "s_writing", "s_wait", "s_defer"}
\* The positions at which the call is registered and may be waiting.
InFlight(p) == pc[p] \in {"s_write", "s_writing", "s_wait"}

\* C1: a response that reaches a call's channel, and the response a call
\* returns, carries the id that was assigned to that call, whatever the
\* order in which the server answers the calls in flight.
C1_Correlation ==
  \A p \in Callers :
    /\ respCh[p] # <<>> => /\ pc[p] \in HasID
                           /\ Head(respCh[p]).id = myid[p]
    /\ ret[p].id # 0 => ret[p].id = myid[p]

\* Two calls in flight on one session, answered in the reverse order.
C1_Witness ==
  \E p, q \in Callers :
    /\ p # q /\ cur[p] = cur[q] /\ cur[p] # NilWS
    /\ InFlight(p) /\ InFlight(q)
    /\ myid[p] > myid[q]
    /\ respCh[p] # <<>>
    /\ q \in PendingCalls(ws[cur[q]])

\* C2: an id assigned on a session is greater than every id assigned on it
\* before, so calls that hold an id on one session hold different ids and
\* no id has two entries in the pending map.
C2_IdsDistinct ==
  /\ \A p \in Callers :
       pc[p] \in HasID => myid[p] >= 1 /\ myid[p] <= ws[cur[p]].msgID
  /\ \A p, q \in Callers :
       p # q /\ pc[p] \in HasID /\ pc[q] \in HasID /\ cur[p] = cur[q]
         => myid[p] # myid[q]
  /\ \A s \in Sessions : \A e, f \in ws[s].pending : e[1] = f[1] => e = f

C2_IdsIncrease ==
  \A p \in Callers :
    pc[p] = "s_id" /\ pc'[p] = "s_reg" =>
      /\ myid'[p] > ws[cur[p]].msgID
      /\ myid'[p] = ws'[cur[p]].msgID

C2_UniqueIds == []C2_IdsDistinct /\ [][C2_IdsIncrease]_vars

\* Two calls registered on one session at the same time.
C2_Witness ==
  \E p, q \in Callers :
    /\ p # q /\ cur[p] = cur[q] /\ cur[p] # NilWS
    /\ Cardinality(ws[cur[p]].pending) = 2
    /\ myid[p] = 1 /\ myid[q] = 2

\* C3 as stated: a call that was pending when its reader's read failed
\* returns "websocket connection closed".
C3_AllClosed ==
  \A p \in Callers : orphan[p] /\ pc[p] = "idle" => ret[p].err = ErrClosed

\* What such a call returns when its command was not yet written.
NotWritten == {<<"marshal command", "unsupported type">>,
               Wrap("write command", ErrIO)}

\* C3, amended: a call that was pending when its reader's read failed
\* eventually returns, and it returns "websocket connection closed", or
\* the marshal or write error of a command that was not yet written, or its
\* context's error when that context is cancelled.
C3_Outcome ==
  \A p \in Callers :
    orphan[p] /\ pc[p] = "idle" =>
      \/ ret[p].err = ErrClosed
      \/ ret[p].err \in NotWritten
      \/ ret[p].err = ErrCtx /\ cancelled[p]

C3_PendingFail ==
  /\ []C3_Outcome
  /\ \A p \in Callers : orphan[p] ~> pc[p] = "idle"

\* Two calls were pending when the read failed; both returned
\* "websocket connection closed".
C3_Witness ==
  \A p \in Callers :
    orphan[p] /\ pc[p] = "idle" /\ ret[p].err = ErrClosed /\ cur[p] = 1

\* C4: only a message with a nonzero, registered id reaches a waiter; a
\* pending entry goes away only by the delivery of the response with its id
\* or by its own call's cleanup; the reader leaves its loop only when the
\* connection cannot be read.  So a message with id zero, an unknown id, a
\* duplicate or a late response changes nothing and is followed by
\* deliveries as before.
Last(q) == q[Len(q)]

C4_OnlyRegistered ==
  \A p \in Callers :
    Len(respCh'[p]) > Len(respCh[p]) =>
      /\ Last(respCh'[p]).id # 0
      /\ <<Last(respCh'[p]).id, p>> \in ws[cur[p]].pending

C4_PendingKept ==
  \A s \in Sessions : \A e \in ws[s].pending :
    e \notin ws'[s].pending =>
      \/ /\ Len(respCh'[e[2]]) = Len(respCh[e[2]]) + 1
         /\ Last(respCh'[e[2]]).id = e[1]
      \/ /\ pc[e[2]] = "s_defer" /\ pc'[e[2]] = "idle"
         /\ myid[e[2]] = e[1] /\ cur[e[2]] = s

C4_ReaderRuns ==
  \A s \in Sessions :
    ws[s].rpc = "run" /\ ws'[s].rpc # "run" => ~Readable(ws[s])

C4_JunkDropped ==
  [][C4_OnlyRegistered /\ C4_PendingKept /\ C4_ReaderRuns]_vars

\* The reader dropped a message and delivered a response after that, here
\* on a session where a cancelled call has returned.
C4_Witness ==
  \E s \in Sessions :
    /\ ws[s].rhist = "drop_then_deliver" /\ ws[s].rpc = "run"
    /\ \E p \in Callers : cur[p] = s /\ pc[p] = "idle" /\ ret[p].err = ErrCtx

\* C5: the handshake is linear.  The reader runs and the session is stored
\* only after the handshake ended with auth_ok; the auth message with the
\* token is on the wire exactly from SendCredential on; a first message
\* other than auth_required fails connect with nothing written, and a second
\* message other than auth_ok fails connect.
C5_States ==
  \A s \in Sessions :
    /\ ws[s].rpc # "none" \/ cws = s => ws[s].hs = "ok"
    /\ ws[s].hs \in {"AwaitOutcome", "ok"} =>
         ws[s].sentAuth = [type |-> "auth", access_token |-> Token]
    /\ ws[s].hs \in {"", "AwaitRequired", "SendCredential"} =>
         ws[s].sentAuth = NoAuth

ConnectFailed(p) ==
  /\ pc'[p] = "idle" /\ ret'[p].err # ErrNil
  /\ ws'[cur[p]].hs = "failed" /\ ws'[cur[p]].rpc = "none"
  /\ cws' = cws

C5_Steps ==
  \A p \in Callers : \A m \in HsMsgs :
    /\ AuthRead1(p, m) =>
         IF m.type = "auth_required"
         THEN pc'[p] = "a_write" /\ ws'[cur[p]].hs = "SendCredential"
         ELSE ConnectFailed(p) /\ ws'[cur[p]].sentAuth = NoAuth
    /\ AuthRead2(p, m) =>
         IF m.type = "auth_ok"
         THEN pc'[p] = "get_ws" /\ ws'[cur[p]].hs = "ok" /\ cws' = cur[p]
         ELSE ConnectFailed(p)

C5_Handshake == []C5_States /\ [][C5_Steps]_vars

\* A handshake that succeeded, and one that failed on its first message.
C5_Witness ==
  /\ ws[1].hs = "failed" /\ ws[1].sentAuth = NoAuth
  /\ ws[2].hs = "ok" /\ cws = 2 /\ ws[2].rpc = "run"

\* C6: auth_invalid makes connect return "websocket auth: auth failed: "
\* followed by the server's message, or by "invalid authentication" when
\* that is empty; no reader is started, no session is stored, c.wsMu is
\* released, so the next call dials again.
C6_Step ==
  \A p \in Callers : \A m \in HsMsgs :
    AuthRead2(p, m) /\ m.type = "auth_invalid" =>
      /\ pc'[p] = "idle"
      /\ ret'[p].err =
           <<"websocket auth", "auth failed",
             IF m.message = "" THEN "invalid authentication" ELSE m.message>>
      /\ ws'[cur[p]].rpc = "none" /\ ws'[cur[p]].readers = 0
      /\ cws' = cws /\ cws' # cur[p]
      /\ wsMu' = Free

InConnect == {"c_dial", "a_read1", "a_write", "a_read2"}

C6_State ==
  /\ \A s \in Sessions : ws[s].hs = "failed" => ws[s].rpc = "none" /\ cws # s
  /\ wsMu \in Callers => pc[wsMu] \in InConnect
  /\ \A p \in Callers : pc[p] \in InConnect => wsMu = p

C6_AuthInvalid == []C6_State /\ [][C6_Step]_vars

\* A call got "auth failed" and another call has dialed again.
C6_Witness ==
  \E p, q \in Callers :
    /\ pc[p] = "idle" /\ Len(ret[p].err) = 3 /\ ret[p].err[2] = "auth failed"
    /\ ws[1].hs = "failed" /\ cws = NilWS
    /\ pc[q] = "a_read1" /\ cur[q] = 2

\* C7: a connect that fails returns an error, leaves c.ws as it was and
\* c.wsMu free, has closed the connection it dialed, has started no reader
\* for it, and has not dialed again.
C7_Step ==
  \A p \in Callers :
    pc[p] \in InConnect \cup {"c_lock"} /\ pc'[p] = "idle" =>
      /\ ret'[p].err # ErrNil
      /\ cws' = cws
      /\ wsMu' = Free
      /\ nSess' = nSess
      /\ pc[p] \in {"a_read1", "a_write", "a_read2"} =>
           /\ ws'[cur[p]].connClosed
           /\ ws'[cur[p]].rpc = "none"
           /\ cws' # cur[p]

C7_State ==
  \A s \in Sessions :
    ws[s].hs = "failed" => ws[s].connClosed /\ ws[s].rpc = "none" /\ cws # s

C7_ConnectFails == []C7_State /\ [][C7_Step]_vars

\* The client holds a dead session, a second connect has failed in the
\* handshake, and the client still holds the same session.
C7_Witness ==
  /\ cws = 1 /\ ws[1].done
  /\ ws[2].hs = "failed" /\ ws[2].connClosed /\ ws[2].rpc = "none"
  /\ \E p \in Callers : pc[p] = "idle" /\ cur[p] = 2 /\ ret[p].err # ErrNil

\* C8: a connect on a client whose session is live dials nothing, starts
\* no reader and stores nothing: the call goes on with the session there
\* is.  No session has more than one reader, and at most one session at a
\* time has a reader and an open done channel.
Serving == {s \in Sessions : ws[s].rpc # "none" /\ ~ws[s].done}

C8_OneSession ==
  /\ Cardinality(Serving) <= 1
  /\ \A s \in Sessions : ws[s].readers <= 1

C8_Step ==
  \A p \in Callers :
    /\ pc[p] = "c_lock" /\ pc'[p] # "c_lock"
    /\ cws # NilWS /\ ~ws[cws].done
    => /\ pc'[p] = "get_ws"
       /\ nSess' = nSess /\ cws' = cws /\ ws' = ws /\ wsMu' = wsMu

C8_Idempotent == []C8_OneSession /\ [][C8_Step]_vars

\* Two calls in flight on the one session that was ever dialed.
C8_Witness ==
  /\ nSess = 1 /\ ws[1].readers = 1 /\ cws = 1
  /\ \A p \in Callers : cur[p] = 1 /\ pc[p] = "s_wait"

\* C9 as stated: a call that waits on a session whose done channel is
\* closed leaves its wait with "websocket connection closed".
C9_AllClosed ==
  [][\A p \in Callers :
       pc[p] = "s_wait" /\ ws[cur[p]].done /\ pc'[p] # "s_wait" =>
         ret'[p].err = ErrClosed]_vars

\* C9: done is closed at most once per session; once close has returned,
\* done is closed, the connection is closed and nothing of that changes
\* again; a call whose context is not cancelled and that waits on a session
\* whose done channel is closed leaves its wait, with "websocket connection
\* closed" or with the outcome of a response that is in its channel.
C9_Once ==
  \A s \in Sessions :
    /\ ws[s].doneCloses <= 1
    /\ ws[s].done <=> ws[s].doneCloses = 1
    /\ ws[s].once = "done" => ws[s].done /\ ws[s].connClosed

C9_NoFurther ==
  \A s \in Sessions :
    ws[s].once = "done" =>
      /\ ws'[s].once = "done" /\ ws'[s].done /\ ws'[s].connClosed
      /\ ws'[s].doneCloses = ws[s].doneCloses

C9_Leaves ==
  \A p \in Callers :
    /\ pc[p] = "s_wait" /\ ws[cur[p]].done /\ pc'[p] # "s_wait"
    /\ ~cancelled[p]
    => \/ ret'[p].err = ErrClosed
       \/ /\ respCh[p] # <<>>
          /\ ret'[p].err = RespErr(Head(respCh[p]))
          /\ ret'[p].id = myid[p]

C9_CloseOnce ==
  /\ []C9_Once
  /\ [][C9_NoFurther /\ C9_Leaves]_vars
  /\ \A p \in Callers :
       (pc[p] = "s_wait" /\ ws[cur[p]].done /\ ~cancelled[p])
         ~> (pc[p] = "idle")

\* CloseWebSocket closed the session, the reader's own close did nothing
\* after it, and a call that waited on the session has returned the
\* connection-closed failure.
C9_Witness ==
  /\ closes = 1 /\ kpc = "idle"
  /\ ws[1].once = "done" /\ ws[1].rpc = "exit" /\ ws[1].doneCloses = 1
  /\ \E p \in Callers :
       pc[p] = "idle" /\ cur[p] = 1 /\ myid[p] # 0 /\ ret[p].err = ErrClosed

\* C10: no call dereferences a nil c.ws.
C10_NoNilDeref == \A p \in Callers : pc[p] # "panic"

\* C11 as stated: a call that waits with a cancelled context leaves its wait
\* with the context's error.
C11_CtxError ==
  [][\A p \in Callers :
       pc[p] = "s_wait" /\ cancelled[p] /\ pc'[p] # "s_wait" =>
         ret'[p].err = ErrCtx]_vars

\* C11: a call that waits with a cancelled context leaves its wait whether
\* or not the server ever responds, with the context's error, or with the
\* outcome of a response that is in its channel, or with "websocket
\* connection closed" when done is closed; a call that returned the
\* context's error has no entry in the pending map.
C11_Leaves ==
  \A p \in Callers :
    pc[p] = "s_wait" /\ cancelled[p] /\ pc'[p] # "s_wait" =>
      \/ ret'[p].err = ErrCtx
      \/ /\ respCh[p] # <<>>
         /\ ret'[p].err = RespErr(Head(respCh[p]))
         /\ ret'[p].id = myid[p]
      \/ ws[cur[p]].done /\ ret'[p].err = ErrClosed

C11_Removed ==
  \A p \in Callers :
    pc[p] = "idle" /\ ret[p].err = ErrCtx =>
      ~MapHas(ws[cur[p]].pending, myid[p])

C11_Cancelled ==
  /\ []C11_Removed
  /\ [][C11_Leaves]_vars
  /\ \A p \in Callers :
       (pc[p] = "s_wait" /\ cancelled[p]) ~> (pc[p] = "idle")

\* A call returned the context's error on a session that is open, whose
\* reader runs and has delivered nothing to it.
C11_Witness ==
  \E p \in Callers :
    /\ pc[p] = "idle" /\ ret[p].err = ErrCtx /\ myid[p] # 0
    /\ ws[cur[p]].rpc = "run" /\ ~ws[cur[p]].done
    /\ ws[cur[p]].remote = "up"

\* C12: a connect whose context is cancelled while it is in the dial or in
\* one of the two handshake reads eventually returns.
C12_ConnectCancels ==
  \A p \in Callers :
    (pc[p] \in {"c_dial", "a_read1", "a_read2"} /\ cancelled[p])
      ~> (pc[p] = "idle")

\* C13: a call that takes from its channel a response with a structured
\* error fails with the WebSocketError of that error's code and message,
\* whatever the success flag and the payload, and returns that error with
\* nothing decoded into its target.
Takes(p) == pc[p] = "s_wait" /\ Len(respCh'[p]) < Len(respCh[p])

C13_Step ==
  \A p \in Callers :
    /\ Takes(p) /\ Head(respCh[p]).error # NoError =>
         /\ ret'[p].err = <<"websocket error", Head(respCh[p]).error[1],
                            Head(respCh[p]).error[2]>>
         /\ ret'[p].result = ""
    /\ pc[p] = "s_defer" /\ pc'[p] = "idle" /\ ret[p].err # ErrNil =>
         ret'[p].err = ret[p].err /\ ret'[p].val = ""

C13_RemoteError == [][C13_Step]_vars

\* A call with a target got a response with success true, a payload and a
\* structured error, and has returned.
C13_Witness ==
  \E p \in Callers :
    /\ pc[p] = "idle" /\ target[p] /\ ret[p].val = ""
    /\ ret[p].err = <<"websocket error", "unknown_error", "y">>

\* C14 as stated: a call that takes from its channel a response with
\* success false and no structured error fails with "command failed",
\* whatever the type of the response.
C14_AnyType ==
  [][\A p \in Callers :
       /\ Takes(p)
       /\ Head(respCh[p]).error = NoError /\ ~Head(respCh[p]).success
       => ret'[p].err = ErrCmdFailed]_vars

\* C14: a call that takes from its channel a response with success false
\* and no structured error fails with "command failed" when the type of the
\* response is "result"; with any other type sendCommand returns the
\* response and no error.
C14_Step ==
  \A p \in Callers :
    /\ Takes(p)
    /\ Head(respCh[p]).error = NoError /\ ~Head(respCh[p]).success
    => IF Head(respCh[p]).type = "result"
       THEN ret'[p].err = ErrCmdFailed /\ ret'[p].result = ""
       ELSE ret'[p].err = ErrNil /\ ret'[p].result = Head(respCh[p]).result

C14_CommandFailed == [][C14_Step]_vars

\* A call has returned "command failed".
C14_Witness ==
  \E p \in Callers :
    pc[p] = "idle" /\ myid[p] # 0 /\ ret[p].err = ErrCmdFailed

\* C15 as stated: a call whose waiter resolved with a successful response
\* returns no error.
Succeeded(resp) == resp.success /\ resp.error = NoError

C15_TakesPayload ==
  \A p \in Callers :
    Takes(p) /\ Succeeded(Head(respCh[p])) =>
      ret'[p].err = ErrNil /\ ret'[p].result = Head(respCh[p]).result

Returns(p) == pc[p] = "s_defer" /\ pc'[p] = "idle"

C15_NoError ==
  [][/\ C15_TakesPayload
     /\ \A p \in Callers :
          Returns(p) /\ ret[p].err = ErrNil => ret'[p].err = ErrNil]_vars

\* C15: a call whose waiter resolved with a successful response gets that
\* response's payload.  With a target and a payload that is not empty the
\* call returns no error and the target holds the decoding of the payload,
\* or, when the payload cannot be decoded into the target, the call returns
\* "decode result: ..."; without a target or with an empty payload nothing
\* is decoded and the call returns no error.
C15_Return ==
  \A p \in Callers :
    Returns(p) /\ ret[p].err = ErrNil =>
      IF target[p] /\ ret[p].result # ""
      THEN IF ret[p].result = "{\"pong\":true}"
           THEN ret'[p].err = ErrNil /\ ret'[p].val = "map[pong:true]"
           ELSE ret'[p].err[1] = "decode result" /\ ret'[p].val = ""
      ELSE ret'[p].err = ErrNil /\ ret'[p].val = ""

C15_Decoded == [][C15_TakesPayload /\ C15_Return]_vars

\* A call with a target has returned the decoding of the payload, without
\* error.
C15_Witness ==
  \E p \in Callers :
    /\ pc[p] = "idle" /\ target[p] /\ ret[p].err = ErrNil
    /\ ret[p].result = "{\"pong\":true}" /\ ret[p].val = "map[pong:true]"

\* C16: a session whose reader has ended has its done channel closed; a
\* connect that finds such a session in c.ws never returns it as connected
\* but goes on to dial (or fails building the URL); the session a successful
\* handshake stores is the one just dialed, on which nothing was sent; and
\* a call sends on the session c.ws holds after its connect.
C16_EndedIsDone ==
  \A s \in Sessions : ws[s].rpc \in {"closing2", "exit"} => ws[s].done

C16_Step ==
  \A p \in Callers :
    /\ pc[p] = "c_lock" /\ pc'[p] # "c_lock" /\ cws # NilWS /\ ws[cws].done
       => \/ pc'[p] = "c_dial"
          \/ pc'[p] = "idle" /\ ret'[p].err[1] = "build websocket URL"
    /\ pc[p] = "a_read2" /\ pc'[p] = "get_ws"
       => /\ cws' = nSess /\ cws' = cur[p] /\ cws' # cws
          /\ ws'[cws'].msgID = 0 /\ ~ws'[cws'].done
          /\ ws'[cws'].rpc = "run"
    /\ pc[p] = "get_ws" /\ pc'[p] = "s_id" => cur'[p] = cws

C16_Reconnect == []C16_EndedIsDone /\ [][C16_Step]_vars

\* Session 1 was lost, the client holds session 2, and a call has written
\* its command on session 2.
C16_Witness ==
  /\ ws[1].rpc = "exit" /\ ws[1].remote = "dropped" /\ cws = 2
  /\ \E p \in Callers : pc[p] = "s_wait" /\ cur[p] = 2 /\ myid[p] = 1

\* C17: every connection is dialed with the URL that has scheme ws when the
\* base URL's scheme is http and wss when it is https, the base URL's host
\* and port, and as path the base URL's path without its last piece when
\* that is a slash, followed by /api/websocket; with any other scheme
\* nothing is dialed and every call returns "build websocket URL:
\* unsupported scheme".
EndsInSlash(pa) == Len(pa) > 0 /\ pa[Len(pa)] = "/"

C17_Derived(b, u) ==
  /\ b.scheme \in {"http", "HTTP"} => u.scheme = "ws"
  /\ b.scheme = "https" => u.scheme = "wss"
  /\ u.host = b.host
  /\ Len(u.path) = IF EndsInSlash(b.path) THEN Len(b.path)
                   ELSE Len(b.path) + 1
  /\ \A i \in 1..(Len(u.path) - 1) : u.path[i] = b.path[i]
  /\ u.path[Len(u.path)] = "/api/websocket"

C17_URL ==
  /\ \A s \in Sessions :
       ws[s].dialed =>
         /\ baseURL.scheme \in {"http", "HTTP", "https"}
         /\ C17_Derived(baseURL, ws[s].url)
  /\ baseURL.scheme \notin {"http", "HTTP", "https"} =>
       /\ nSess = 0
       /\ \A p \in Callers :
            pc[p] \in {"idle", "c_lock"}
            /\ (pc[p] = "idle" /\ cmd[p] # NoCmd =>
                  /\ Len(ret[p].err) = 3
                  /\ ret[p].err[1] = "build websocket URL"
                  /\ ret[p].err[2] = "unsupported scheme")

\* A connection was dialed from an https base URL whose path ends in two
\* slashes.
C17_Witness ==
  /\ baseURL.scheme = "https" /\ Len(baseURL.path) = 3
  /\ baseURL.path[2] = "/" /\ baseURL.path[3] = "/"
  /\ ws[1].dialed /\ ws[1].url.scheme = "wss" /\ Len(ws[1].url.path) = 3

\* C18: a call is inside sendCommand only on a session whose handshake
\* ended with auth_ok, and only such a session has assigned an id, holds a
\* pending entry or is being written; a call leaves connect either with a
\* stored session whose handshake ended with auth_ok, or by returning the
\* error of connect, with no id assigned and no session's counter or
\* pending map changed.
InSend == {"s_id", "s_reg", "s_write", "s_writing", "s_wait", "s_defer"}

C18_State ==
  /\ \A p \in Callers : pc[p] \in InSend => ws[cur[p]].hs = "ok"
  /\ \A s \in Sessions :
       ws[s].msgID > 0 \/ ws[s].pending # {} \/ ws[s].mu # Free =>
         ws[s].hs = "ok"

ConnectErrors == {"build websocket URL", "websocket dial", "websocket auth"}

C18_Step ==
  \A p \in Callers :
    pc[p] \in InConnect \cup {"c_lock"} /\
    pc'[p] \notin InConnect \cup {"c_lock", "a_write"} =>
      \/ /\ pc'[p] = "get_ws"
         /\ cws' # NilWS /\ ws'[cws'].hs = "ok"
         /\ ret'[p].err = ErrNil
      \/ /\ pc'[p] = "idle"
         /\ ret'[p].err # ErrNil /\ ret'[p].err[1] \in ConnectErrors
         /\ myid'[p] = 0
         /\ \A s \in Sessions :
              ws'[s].msgID = ws[s].msgID /\ ws'[s].pending = ws[s].pending

C18_AuthFirst == []C18_State /\ [][C18_Step]_vars

\* A call has returned a handshake failure: its session assigned no id and
\* holds no pending entry.
C18_Witness ==
  \E p \in Callers :
    /\ pc[p] = "idle" /\ cur[p] # NilWS
    /\ ret[p].err # ErrNil /\ ret[p].err[1] = "websocket auth"
    /\ myid[p] = 0
    /\ ws[cur[p]].msgID = 0 /\ ws[cur[p]].pending = {}

\* C19: a call that has returned has no entry in the pending map of its
\* session, and a session on which no call is between its registration and
\* its return has an empty pending map.
Registering == {"s_write", "s_writing", "s_wait", "s_defer"}

C19_NoLeak ==
  /\ \A p \in Callers :
       pc[p] = "idle" /\ myid[p] # 0 =>
         \A e \in ws[cur[p]].pending : e[1] # myid[p] /\ e[2] # p
  /\ \A s \in Sessions :
       (\A p \in Callers : ~(cur[p] = s /\ pc[p] \in Registering)) =>
         ws[s].pending = {}

\* Two calls registered on one session and returned, one with the error of
\* its context and one with "websocket connection closed"; the pending map
\* is empty.
C19_Witness ==
  \E p, q \in Callers :
    /\ pc[p] = "idle" /\ pc[q] = "idle" /\ cur[p] = 1 /\ cur[q] = 1
    /\ myid[p] = 1 /\ myid[q] = 2
    /\ ret[p].err = ErrCtx /\ ret[q].err = ErrClosed
    /\ ws[1].pending = {}

\* C20: the reader is never stuck in a send and never keeps pendingMu; a
\* channel holds at most one message; a message is sent only on an empty
\* channel whose entry is in the pending map, and the entry is gone after
\* the send.
C20_NotBlocked ==
  /\ \A s \in Sessions : ws[s].rpc # "blocked" /\ ws[s].pendingMu = Free
  /\ \A p \in Callers : Len(respCh[p]) <= RespChCap

C20_Send ==
  \A p \in Callers :
    Len(respCh'[p]) > Len(respCh[p]) =>
      /\ respCh[p] = <<>>
      /\ <<myid[p], p>> \in ws[cur[p]].pending
      /\ <<myid[p], p>> \notin ws'[cur[p]].pending
      /\ ws'[cur[p]].rpc = "run"

C20_NeverBlocks == []C20_NotBlocked /\ [][C20_Send]_vars

\* The reader has delivered a response to a call that had already given up
\* on its context, and runs on.
C20_Witness ==
  \E p \in Callers :
    /\ pc[p] = "s_defer" /\ ret[p].err = ErrCtx /\ respCh[p] # <<>>
    /\ ws[cur[p]].rpc = "run" /\ ws[cur[p]].pendingMu = Free

\* C21: on every connection at most one write is in progress: the callers
\* that are writing the credential or a command on one session are never
\* two, a command is written by the holder of ws.mu only, and the
\* credential is written while the session is not yet stored in c.ws.
Writers(s) ==
  {p \in Callers : cur[p] = s /\ pc[p] \in {"a_write", "s_writing"}}

C21_OneWriter ==
  /\ \A s \in Sessions : Cardinality(Writers(s)) <= 1
  /\ \A p \in Callers :
       /\ pc[p] = "s_writing" => ws[cur[p]].mu = p
       /\ pc[p] = "a_write" =>
            /\ cws # cur[p]
            /\ \A q \in Callers : q # p /\ pc[q] \in InSend => cur[q] # cur[p]

\* One call is writing its command and the other waits for ws.mu on the
\* same session.
C21_Witness ==
  \E p, q \in Callers :
    /\ p # q /\ cur[p] = cur[q]
    /\ pc[p] = "s_writing" /\ pc[q] = "s_write" /\ ws[cur[p]].mu = p

\* C22: a session has had at most one reader goroutine, and has one only
\* if its handshake ended with auth_ok; the caller that reads the handshake
\* messages of a connection is the only one that reads it, and it does so
\* while the session has no reader; no caller reads at any other position.
HandshakeReaders(s) ==
  {p \in Callers : cur[p] = s /\ pc[p] \in {"a_read1", "a_read2"}}

C22_OneReader ==
  \A s \in Sessions :
    /\ ws[s].readers <= 1
    /\ ws[s].rpc # "none" <=> ws[s].readers = 1
    /\ ws[s].rpc # "none" => ws[s].hs = "ok" /\ HandshakeReaders(s) = {}
    /\ Cardinality(HandshakeReaders(s)) <= 1
    /\ HandshakeReaders(s) # {} =>
         ws[s].hs \in {"AwaitRequired", "AwaitOutcome"}

\* A session whose handshake is over has its one reader running while a
\* call waits on it.
C22_Witness ==
  \E s \in Sessions : \E p \in Callers :
    /\ ws[s].hs = "ok" /\ ws[s].rpc = "run" /\ ws[s].readers = 1
    /\ cur[p] = s /\ pc[p] = "s_wait"

\* C23: every entry of a session's pending map belongs to a call that works
\* on that session under that id; a channel receives a message only from
\* the reader of its call's own session, which is then readable, and no
\* other session changes in that step; a call that waits with an empty
\* channel on a session whose done channel is closed leaves its wait, with
\* "websocket connection closed".
C23_OwnEntries ==
  \A s \in Sessions : \A e \in ws[s].pending :
    cur[e[2]] = s /\ myid[e[2]] = e[1]

C23_OwnReader ==
  \A p \in Callers :
    Len(respCh'[p]) > Len(respCh[p]) =>
      /\ ws[cur[p]].rpc = "run" /\ Readable(ws[cur[p]])
      /\ Last(respCh'[p]).id = myid[p]
      /\ <<myid[p], p>> \in ws[cur[p]].pending
      /\ \A s \in Sessions : s # cur[p] => ws'[s] = ws[s]

C23_OldWaiter ==
  \A p \in Callers :
    /\ pc[p] = "s_wait" /\ ws[cur[p]].done /\ respCh[p] = <<>>
    /\ pc'[p] # "s_wait"
    => ret'[p].err = ErrClosed

C24_OneID ==
  \A p \in Callers :
    /\ myid'[p] # myid[p] =>
         \/ pc[p] = "idle" /\ pc'[p] = "c_lock" /\ myid'[p] = 0
         \/ /\ pc[p] = "s_id" /\ pc'[p] = "s_reg" /\ myid[p] = 0
            /\ myid'[p] = ws'[cur[p]].msgID
            /\ ws'[cur[p]].msgID = ws[cur[p]].msgID + 1
    /\ pc'[p] = "s_writing" /\ pc[p] # "s_writing" => pc[p] = "s_write"

C24_Counters ==
  /\ \A s \in Sessions :
       ws'[s].msgID # ws[s].msgID =>
         \E p \in Callers : cur[p] = s /\ pc[p] = "s_id" /\ pc'[p] = "s_reg"
  /\ nSess' # nSess =>
       \E p \in Callers : pc[p] = "c_dial" /\ pc'[p] = "a_read1"

C24_Forward ==
  \A p \in Callers :
    /\ pc[p] = "s_writing" => pc'[p] \in {"s_writing", "s_wait", "s_defer"}
    /\ pc[p] = "s_wait" => pc'[p] \in {"s_wait", "s_defer"}
    /\ pc[p] = "s_defer" => pc'[p] \in {"s_defer", "idle"}
    /\ pc[p] \in {"s_writing", "s_wait", "s_defer"} =>
         cur'[p] = cur[p] /\ myid'[p] = myid[p]

C24_NoRetry == [][C24_OneID /\ C24_Counters /\ C24_Forward]_vars

\* The only call made has lost its connection after writing its command:
\* one connection was dialed and one id was issued.
C24_Witness ==
  \E p \in Callers :
    /\ calls = 1 /\ pc[p] = "idle" /\ ret[p].err = ErrClosed
    /\ myid[p] = 1 /\ nSess = 1 /\ ws[1].msgID = 1

\* The call has handed its message to WriteJSON.
Wrote(p) == pc[p] \in {"s_writing", "s_wait", "s_defer"} /\ sent[p] # NoCmd

\* C25: sendCommand leaves the caller's command as it was, and the message
\* it writes holds exactly the caller's fields with their values plus the
\* field id set to the id of the call, which replaces an id field of the
\* command in the written message.
C25_CopyPlusID ==
  [][\A p \in Callers :
       /\ (pc[p] # "idle" => cmd'[p] = cmd[p])
       /\ (Wrote(p)' =>
             /\ DOMAIN sent'[p] = DOMAIN cmd'[p] \cup {"id"}
             /\ sent'[p]["id"] = <<0, myid'[p]>>
             /\ \A f \in DOMAIN cmd'[p] \ {"id"} :
                  sent'[p][f] = cmd'[p][f])]_vars

\* The script entities of a list of states: the positions whose id has the
\* seven characters of "script." in front.
IsScript(id) ==
  Len(id) >= 7 /\ \A i \in 1..7 : id[i] = ScriptDot[i]

ScriptsOf(states) == SelectSeq(states, LAMBDA st : IsScript(st.EntityID))

\* The id without its first seven characters.
Unprefixed(id) == [i \in 1..(Len(id) - 7) |-> id[i + 7]]

\* C26: ScriptList queries the config endpoint first and returns its list
\* when that succeeds; only when it fails does it query /api/states, and
\* then it returns exactly the script entities in the order of the input,
\* each with its friendly_name (or its id without the prefix) as alias and
\* an empty sequence that is not nil; when the states query fails too, the
\* error names both failures.
C26_ScriptList ==
  /\ rest.queries # <<>> => rest.queries[1] = "/api/config/script/config"
  /\ Len(rest.queries) <= 2
  /\ Len(rest.queries) = 2 =>
       rest.err # ErrNil /\ rest.queries[2] = "/api/states"
  /\ rest.pc = "done" /\ rest.err = ErrNil =>
       /\ Len(rest.queries) = 1
       /\ rest.retErr = ErrNil
       /\ rest.configs = rest.body
  /\ rest.pc = "done" /\ rest.err # ErrNil /\ rest.retErr = ErrNil =>
       LET want == ScriptsOf(rest.states)
           got == rest.configs.items
       IN  /\ ~rest.configs.nil
           /\ Len(got) = Len(want)
           /\ \A i \in 1..Len(want) :
                /\ got[i].ID = want[i].EntityID
                /\ got[i].Alias =
                     IF want[i].Attributes.friendly_name.kind = "string"
                     THEN want[i].Attributes.friendly_name.v
                     ELSE Unprefixed(want[i].EntityID)
                /\ got[i].Sequence = [nil |-> FALSE, items |-> <<>>]
  /\ rest.pc = "done" /\ rest.retErr # ErrNil =>
       /\ Len(rest.queries) = 2
       /\ rest.configs.nil
       /\ \E e \in RestErrors :
            rest.retErr = <<"script list: config endpoint failed">>
                            \o rest.err
                            \o <<"states fallback also failed">> \o e

\* The fallback has returned two script entities out of a list that holds
\* another entity as well, one of them without a friendly name.
C26_Witness ==
  /\ rest.pc = "done"
  /\ rest.err # ErrNil
  /\ Len(rest.states) = 3
  /\ Len(rest.configs.items) = 2
  /\ \E i \in 1..2 : rest.configs.items[i].Alias = <<"b">>

\* The response to the call is in its channel and the call has not resumed.
Delivered(p) == pc[p] = "s_wait" /\ respCh[p] # <<>>

\* What sendCommand returns for the response in the channel of the call.
OfResponse(p, r) ==
  /\ r.err = RespErr(Head(respCh[p]))
  /\ r.id = Head(respCh[p]).id

C28_Nonzero ==
  /\ \A p \in Callers : pc[p] \in HasID => myid[p] >= 1
  /\ \A s \in Sessions : \A e \in ws[s].pending :
       e[1] # 0 /\ Registered(ws[s].pending, e[1])

\* The first call on a session gets the id 1.
C28_FirstIsOne ==
  \A p \in Callers :
    pc[p] = "s_id" /\ pc'[p] = "s_reg" /\ ws[cur[p]].msgID = 0 =>
      myid'[p] = 1

\* The reader delivers only messages with an id that is not zero.
C28_ZeroIgnored ==
  \A p \in Callers :
    Len(respCh'[p]) > Len(respCh[p]) => Last(respCh'[p]).id # 0

\* C28: every id assigned to a call is nonzero and the first id on a
\* session is 1, so the reader's rule of ignoring messages with id zero
\* never discards the response to a registered call.
C28_IdsNonzero ==
  /\ []C28_Nonzero
  /\ [][C28_FirstIsOne /\ C28_ZeroIgnored]_vars

\* The reader has ignored a message and the second call of a session has
\* its response, which carries the id 2.
C28_Witness ==
  \E p \in Callers :
    /\ Delivered(p)
    /\ myid[p] = 2
    /\ Head(respCh[p]).id = 2
    /\ ws[cur[p]].rhist = "drop_then_deliver"

\* A session with a reader and an open done channel is the one c.ws
\* holds; a session with a reader that c.ws does not hold has its done
\* channel closed and its connection closed, or about to be closed by the
\* goroutine that is inside closeOnce.Do.
C29_Reachable ==
  /\ \A s \in Serving : cws = s
  /\ \A s \in Sessions :
       ws[s].rpc # "none" /\ cws # s =>
         ws[s].done /\ (ws[s].connClosed \/ ws[s].once = "running")

\* c.ws is set to a session only when it is nil or holds a session whose
\* done channel is closed, and set to nil only by CloseWebSocket after the
\* close of the session it held.
C29_Step ==
  /\ cws' # cws /\ cws' # NilWS =>
       /\ cws = NilWS \/ ws[cws].done
       /\ ~ws'[cws'].done /\ ws'[cws'].rpc = "run"
  /\ cws' # cws /\ cws' = NilWS =>
       /\ kpc \in {"k_close", "k_clear"} /\ ksess = cws
       /\ ws[cws].done /\ ws[cws].connClosed /\ ws[cws].once = "done"

\* C29: the client references at most one session and never abandons a
\* live one: connect stores a new session only when the reference is empty
\* or the referenced session is closed, and CloseWebSocket closes the
\* session before it clears the reference, so no open connection with a
\* running reader is unreachable from the client.
C29_NoAbandon == []C29_Reachable /\ [][C29_Step]_vars

\* CloseWebSocket has closed session 1 and cleared the reference, and a
\* later connect has stored session 2, whose reader runs.
C29_Witness ==
  /\ closes = 1 /\ kpc = "idle"
  /\ ws[1].rpc # "none" /\ ws[1].done /\ ws[1].connClosed
  /\ cws = 2 /\ ws[2].rpc = "run" /\ ~ws[2].done

\* The call has read c.ws and has not begun its write, on a session whose
\* reader has left its loop.
OnDeadSession(p) ==
  /\ pc[p] \in {"s_id", "s_reg", "s_write"}
  /\ ws[cur[p]].rpc \in {"closing2", "exit"}

\* The call that ran on session s has returned (a later call of the same
\* caller runs on another session, since s stays closed).
Returned(p, s) == pc[p] = "idle" /\ cur[p] = s

\* What a call returns that failed on a closed session.
ClosedFailure == {ErrClosed, Wrap("write command", ErrIO)}

====
